---- MODULE Spec2Model ----
(***************************************************************************)
(* Model of the search drivers of handcrafted_image_representations:       *)
(*   OptimizingImageClassifier          (optimizing_image_classifier.py)   *)
(*   OutlierDetectorAggregatorSearch    (outlier_detector.py)              *)
(*   OutlierDetectorSearch              (outlier_detector.py)              *)
(* of the checkpoint writers Classifier.save (classifier.py) and          *)
(* OutlierDetectorAggregatorSearch.save, and of calls of split_tags        *)
(* (data_split.py), Classifier.predict (classifier.py) and the             *)
(* FeatureExtractor (feature_extractor.py).                                *)
(*                                                                         *)
(* An option value of a Configuration is either a scalar or a list of      *)
(* candidate values.  Both are written [list |-> B, v |-> s]: a scalar x   *)
(* is [list |-> FALSE, v |-> <<x>>], the Python list [a, b] is             *)
(* [list |-> TRUE, v |-> <<a, b>>].  A Python None reference to a list     *)
(* element is the index 0.                                                 *)
(***************************************************************************)
EXTENDS Integers, Sequences, FiniteSets, TLC

\* ------------------------------------------------------------ bounds
\* Longest candidate list of a searchable option.
MaxList == 2
\* Largest grid (product of the candidate-list lengths) that a modelled fit runs.
MaxCandidates == 4
\* Scores are k / MaxScore for k in 0..MaxScore, i.e. points of [0, 1].
MaxScore == 2
\* Number of tags of a data set.
NTags == 2
\* Number of distinct checkpoint versions a sequence of saves writes.
MaxVersions == 4
\* Largest number of feature-tier children a modelled OutlierDetectorSearch.fit runs.
MaxChildren == 2
\* Longest tag list of a modelled call of split_tags.
MaxSplitTags == 100
\* Class probabilities are k / MaxProb for k in 0..MaxProb.
MaxProb == 4

\* ------------------------------------------------------------ program constants
\* sampling_step / sampling_window default of OptimizingImageClassifier.new
DefaultSampling == 20
\* ratio=0.2 of split_tags, in hundredths (split_fixed compares i / 100 with it)
RatioPct == 20

\* ------------------------------------------------------------ option values
Scalar(x) == [list |-> FALSE, v |-> <<x>>]
ListOf(s) == [list |-> TRUE, v |-> s]

\* if type(self.opt[k]) is not list: self.opt[k] = [self.opt[k]]
AsList(val) == IF val.list THEN val ELSE [list |-> TRUE, v |-> val.v]

Range(s) == {s[i] : i \in DOMAIN s}

Min(a, b) == IF a < b THEN a ELSE b

\* All non-empty sequences over S of length at most n.
Seqs(S, n) == UNION {[1..k -> S] : k \in 1..n}

\* The non-empty prefixes of s of length at most n.
Prefixes(s, n) == {SubSeq(s, 1, k) : k \in 1..Min(n, Len(s))}

\* Candidate values the modelled Configurations draw from.
AggregatorNames == {"bag_of_words", "global_avg"}
ComplexityValues == <<8, 16, 32, 64>>
ClfTypeValues == <<"svm", "rf", "mlp", "knn">>
FeatureValues == <<"gray-sift", "hsv-sift", "hog", "lbp">>
SamplingStepValues == <<16, 32, 48, 64>>
ImageSizeValues ==
    << [height |-> 128, width |-> 128], [height |-> 64, width |-> 64],
       [height |-> 32, width |-> 32], [height |-> 256, width |-> 256] >>

ClassMapping == [cat |-> 0, dog |-> 1]

\* "global_" in agg : the names above that contain the substring "global_".
ContainsGlobal(name) == name \in {"global_avg"}

\* Option names, in the order Python sorts them (ParameterGrid sorts its keys).
SortedOptionNames ==
    << "aggregator", "clf_type", "complexity", "feature", "image_size",
       "sampling_method", "sampling_step", "sampling_window" >>

aggregator_opt == <<"aggregator", "complexity">>
classifier_opt == <<"clf_type">>
feature_opt == <<"feature", "sampling_method", "sampling_step", "sampling_window", "image_size">>

\* The keys of `keys` that the mapping o holds, sorted.
GridKeys(keys, o) ==
    SelectSeq(SortedOptionNames, LAMBDA k : k \in Range(keys) /\ k \in DOMAIN o)

\* sklearn's ParameterGrid over the (list-valued) options `keys` of o: the
\* cartesian product, first key slowest, as a sequence of mappings key -> value.
RECURSIVE ParameterGrid(_, _)
ParameterGrid(keys, o) ==
    IF keys = <<>> THEN << <<>> >>
    ELSE LET k == Head(keys)
             rest == ParameterGrid(Tail(keys), o)
             vals == o[k].v
         IN  [i \in 1..(Len(vals) * Len(rest)) |->
                (k :> vals[((i - 1) \div Len(rest)) + 1]) @@ rest[((i - 1) % Len(rest)) + 1]]

\* for k in keys: if k in opt and type(opt[k]) is not list: opt[k] = [opt[k]]
Listify(o, keys) ==
    [k \in DOMAIN o |-> IF k \in Range(keys) THEN AsList(o[k]) ELSE o[k]]

\* Product of the candidate-list lengths of the options `keys` present in o.
RECURSIVE ListProduct(_, _)
ListProduct(keys, o) ==
    IF keys = <<>> THEN 1
    ELSE (IF Head(keys) \in DOMAIN o THEN Len(o[Head(keys)].v) ELSE 1)
         * ListProduct(Tail(keys), o)

\* ------------------------------------------------------------ inputs
\* The two data sets: tags of the known data and tags of the test data.
Tags == [i \in 1..NTags |-> i]
TestTags == [i \in 1..NTags |-> NTags + i]
AllTags == 1..(2 * NTags)

Scores == 0..MaxScore

AggregatorChoices ==
    {Scalar(a) : a \in AggregatorNames} \cup {ListOf(s) : s \in Seqs(AggregatorNames, MaxList)}

\* A scalar, or a list of at most MaxList distinct candidate values.
ChoicesOf(vals) == {Scalar(vals[1])} \cup {ListOf(p) : p \in Prefixes(vals, MaxList)}

BaseFeatureOpt ==
    [feature |-> Scalar(FeatureValues[1]), image_size |-> Scalar(ImageSizeValues[1]),
     sampling_method |-> Scalar("dense")]

SamplingOpt ==
    [sampling_step |-> Scalar(SamplingStepValues[1]), sampling_window |-> Scalar(SamplingStepValues[2])]

\* Configurations of OptimizingImageClassifier; sampling_step and
\* sampling_window are optional there.
SupervisedConfigs ==
    { base @@ [aggregator |-> a, complexity |-> c, clf_type |-> f, data_split_mode |-> Scalar(m)] :
        a \in AggregatorChoices, c \in ChoicesOf(ComplexityValues), f \in ChoicesOf(ClfTypeValues),
        m \in {"fixed", "random"}, base \in {BaseFeatureOpt, BaseFeatureOpt @@ SamplingOpt} }

\* Configurations of OutlierDetectorAggregatorSearch.
OutlierAggConfigs ==
    { (BaseFeatureOpt @@ SamplingOpt) @@ [aggregator |-> a, complexity |-> c, method |-> Scalar(m)] :
        a \in AggregatorChoices, c \in ChoicesOf(ComplexityValues),
        m \in {"by_classifier", "by_distance"} }

\* ------------------------------------------------------------ state
VARIABLES
    driver,            \* which search driver the caller constructed
    pc,                \* position of the driver: "start", loop positions, "done", "error"
    opt,               \* the caller's Configuration mapping; self.opt is the same object
    opt_given,         \* the Configuration as the caller passed it (history)
    aggregator_list,   \* self.aggregator_list: the .opt of each Aggregator
    classifier_list,   \* self.classifier_list: the .opt of each Classifier
    agg_state,         \* per Aggregator: 0 = not fitted, 1 = fitted on x_train
    cls_state,         \* per Classifier: index of the aggregator whose output it was last fitted on, 0 = not fitted
    remover,           \* self.remover: index of the aggregator whose output it was last fitted on, 0 = not fitted
    ai, ci,            \* loop positions in aggregator_list and classifier_list
    best_f1_score,     \* OptimizingImageClassifier.fit local
    best_score,        \* OutlierDetectorAggregatorSearch.fit local
    best_candidate,    \* [a |-> aggregator index, c |-> classifier index], a = 0 is None
    scores,            \* the candidates evaluated so far with their score, in order (history)
    final_classifier,  \* self.final_classifier: references [aggregator, classifier], 0 = None
    final_aggregator,  \* self.final_aggregator: aggregator index, 0 = None
    final_remover,     \* self.final_remover: 1 = reference to self.remover, 0 = None
    disk,              \* model folder: <<>> or <<the checkpoint last saved>>
    x_train, x_test,   \* extracted features, one entry per tag, in tag order
    extracted,         \* per tag: number of times extract_x ran on it
    model_list,        \* OutlierDetectorSearch.model_list: the opt mapping of each child
    mi,                \* position in model_list
    version_dirs,      \* per child: the folder version_<i>, <<>> or <<the checkpoint last saved>>
    root,              \* the files at the model-folder root, <<>> or <<the checkpoint copied there>>
    child_scores,      \* the score each completed child's fit returned, in order (history)
    search_best_score,     \* OutlierDetectorSearch.fit local best_score
    search_best_candidate, \* OutlierDetectorSearch.fit local best_candidate, 0 is None
    dir,               \* save model: per file of the target folder, the version that wrote it (0 = absent)
    save_kind,         \* save model: which save runs
    save_pc,           \* save model: position inside save
    save_ver,          \* save model: version the running save writes
    has_model,         \* save model: self.classifier is not None
    fn_pc,             \* call of a function: "call" before it, then the position after it
    fn_args,           \* call of a function: the arguments
    fn_ret,            \* call of a function: the values returned so far
    fe                 \* the FeatureExtractor object: its attributes, <<>> before __init__

fitVars ==
    << aggregator_list, classifier_list, agg_state, cls_state, remover, ai, ci,
       best_f1_score, best_score, best_candidate, scores, final_classifier,
       final_aggregator, final_remover, disk, x_train, x_test, extracted >>
searchVars == << version_dirs, root, child_scores, search_best_score, search_best_candidate >>
childVars == << model_list, mi, searchVars >>
saveVars == << dir, save_kind, save_pc, save_ver, has_model >>
callVars == << fn_pc, fn_args, fn_ret, fe >>
vars == << driver, pc, opt, opt_given, fitVars, childVars, saveVars, callVars >>

NoCandidate == [a |-> 0, c |-> 0]

SaveFiles ==
    { "class_mapping.json", "pipeline_opt.json", "classifier.pkl",
      "outlier_detector_opt.json", "aggregator.pkl", "outlier_model.pkl" }

FitInit ==
    /\ aggregator_list = <<>>
    /\ classifier_list = <<>>
    /\ agg_state = <<>>
    /\ cls_state = <<>>
    /\ remover = 0
    /\ ai = 0
    /\ ci = 0
    /\ best_f1_score = 0
    /\ best_score = 0
    /\ best_candidate = NoCandidate
    /\ scores = <<>>
    /\ final_classifier = [aggregator |-> 0, classifier |-> 0]
    /\ final_aggregator = 0
    /\ final_remover = 0
    /\ disk = <<>>
    /\ x_train = <<>>
    /\ x_test = <<>>
    /\ extracted = [t \in AllTags |-> 0]

ChildInit ==
    /\ model_list = <<>>
    /\ mi = 0
    /\ version_dirs = <<>>
    /\ root = <<>>
    /\ child_scores = <<>>
    /\ search_best_score = 0
    /\ search_best_candidate = 0

SaveIdle ==
    /\ dir = [f \in SaveFiles |-> 0]
    /\ save_kind = "none"
    /\ save_pc = "idle"
    /\ save_ver = 0
    /\ has_model = FALSE

CallIdle ==
    /\ fn_pc = "idle"
    /\ fn_args = <<>>
    /\ fn_ret = <<>>
    /\ fe = <<>>

\* ------------------------------------------------------------ new()
\* OptimizingImageClassifier.new, on self.opt: the two defaults are added to
\* the mapping, then every aggregator and classifier option is wrapped in a list.
SupNewOpt(o) ==
    LET missing == {"sampling_step", "sampling_window"} \ DOMAIN o
        withDefaults == o @@ [k \in missing |-> Scalar(DefaultSampling)]
    IN  Listify(withDefaults, aggregator_opt \o classifier_opt)

\* A plausible slip: no special case for the global aggregators, every
\* (aggregator, complexity) combination of the grid becomes an Aggregator.
SupAggregatorListGridOnly(o) == ParameterGrid(GridKeys(aggregator_opt, o), o)

\* self.aggregator_list of OptimizingImageClassifier.new, from the listified
\* opt: the grid points whose aggregator is not global, then one Aggregator
\* per global name of opt["aggregator"], holding no complexity.
SupAggregatorList(o) ==
    LET grid == ParameterGrid(GridKeys(aggregator_opt, o), o)
        learned == SelectSeq(grid, LAMBDA g : ~ContainsGlobal(g["aggregator"]))
        globals == SelectSeq(o["aggregator"].v, ContainsGlobal)
    IN  learned \o [i \in 1..Len(globals) |-> [aggregator |-> globals[i]]]

\* self.classifier_list of OptimizingImageClassifier.new.
SupClassifierList(o) == ParameterGrid(GridKeys(classifier_opt, o), o)

\* OutlierDetectorAggregatorSearch.new, on self.opt.
AggNewOpt(o) == Listify(o, aggregator_opt)

\* self.aggregator_list of OutlierDetectorAggregatorSearch.new.
AggAggregatorList(o) == ParameterGrid(GridKeys(aggregator_opt, o), o)

\* ------------------------------------------------------------ data split, extraction
\* The entries of s at the positions i with keep[i], in order.
RECURSIVE SelectAt(_, _, _)
SelectAt(s, keep, i) ==
    IF i > Len(s) THEN <<>>
    ELSE (IF keep[i] THEN <<s[i]>> ELSE <<>>) \o SelectAt(s, keep, i + 1)

\* A plausible slip: the comparison of split_random, i / 100 > ratio.
split_fixed_gt(list_of_tags, ratio_pct) ==
    LET toTrain == [i \in 1..Len(list_of_tags) |-> (i - 1) > ratio_pct]
    IN  { [train |-> SelectAt(list_of_tags, toTrain, 1),
           test |-> SelectAt(list_of_tags, [i \in 1..Len(list_of_tags) |-> ~toTrain[i]], 1)] }

\* split_fixed: position i (from 0) goes to train when i / 100 >= ratio.
split_fixed(list_of_tags, ratio_pct) ==
    LET toTrain == [i \in 1..Len(list_of_tags) |-> (i - 1) >= ratio_pct]
    IN  { [train |-> SelectAt(list_of_tags, toTrain, 1),
           test |-> SelectAt(list_of_tags, [i \in 1..Len(list_of_tags) |-> ~toTrain[i]], 1)] }

\* split_random: each tag goes to train when its own draw
\* np.random.randint(100) / 100 exceeds ratio; toTrain[i] is the outcome of
\* that comparison for tag i, and both outcomes occur for 0 < ratio < 0.99.
split_random(list_of_tags, ratio_pct) ==
    { [train |-> SelectAt(list_of_tags, toTrain, 1),
       test |-> SelectAt(list_of_tags, [i \in 1..Len(list_of_tags) |-> ~toTrain[i]], 1)] :
        toTrain \in [1..Len(list_of_tags) -> BOOLEAN] }

\* split_tags: the possible results for the given mode.
split_tags(list_of_tags, ratio_pct, mode) ==
    IF mode = "random" THEN split_random(list_of_tags, ratio_pct)
    ELSE split_fixed(list_of_tags, ratio_pct)

\* FeatureExtractor.extract_trainings_data: extract_x runs once on each entry
\* of tags; cnt counts the runs per tag.
extract_trainings_data(cnt, tags) ==
    [t \in DOMAIN cnt |-> cnt[t] + Cardinality({i \in DOMAIN tags : tags[i] = t})]

\* ------------------------------------------------------------ OptimizingImageClassifier.fit
\* A plausible slip: the comparison is lost, the latest candidate always wins.
IsBetterF1Always(f_1_score, best) == TRUE

\* A plausible slip: a strict comparison, as in the outlier driver.
IsBetterF1Strict(f_1_score, best) == f_1_score > best

\* if f_1_score >= best_f1_score
IsBetterF1(f_1_score, best) == f_1_score >= best

\* A plausible slip: the classifier's options are not written into current_opt.
CurrentOptNoClassifier(o, agg_opt, cls_opt) ==
    [k \in DOMAIN o \cup DOMAIN agg_opt |->
        IF k \in DOMAIN agg_opt THEN Scalar(agg_opt[k]) ELSE o[k]]

\* current_opt: a deep copy of self.opt in which the options of the
\* aggregator and of the classifier are replaced by the candidate's values.
CurrentOpt(o, agg_opt, cls_opt) ==
    [k \in DOMAIN o \cup DOMAIN agg_opt \cup DOMAIN cls_opt |->
        IF k \in DOMAIN cls_opt THEN Scalar(cls_opt[k])
        ELSE IF k \in DOMAIN agg_opt THEN Scalar(agg_opt[k])
        ELSE o[k]]

\* ImageClassifier.save: the resolved config, the class mapping, the state of
\* the aggregator object and the state of the classifier object, as they are
\* when save runs.
ImageClassifierSave(current_opt, a, c, aggs, clss) ==
    [opt |-> current_opt, class_mapping |-> ClassMapping,
     aggregator |-> [idx |-> a, state |-> aggs[a]],
     model |-> [idx |-> c, fit_on |-> clss[c]]]

\* self.opt[k] = candidate.opt[k] for the keys of candidate.opt that self.opt holds.
WriteBack(o, cand_opt) ==
    [k \in DOMAIN o |-> IF k \in DOMAIN cand_opt THEN Scalar(cand_opt[k]) ELSE o[k]]

\* fit up to the aggregator loop: new(), the locals, the split and the two
\* feature extractions.
SupFitBegin ==
    /\ driver = "supervised"
    /\ pc = "start"
    /\ opt' = SupNewOpt(opt)
    /\ aggregator_list' = SupAggregatorList(opt')
    /\ classifier_list' = SupClassifierList(opt')
    /\ agg_state' = [i \in 1..Len(aggregator_list') |-> 0]
    /\ cls_state' = [i \in 1..Len(classifier_list') |-> 0]
    /\ best_f1_score' = 0
    /\ best_candidate' = NoCandidate
    /\ \E sp \in split_tags(Tags, RatioPct, opt["data_split_mode"].v[1]) :
          /\ x_train' = sp.train
          /\ x_test' = sp.test
          /\ extracted' = extract_trainings_data(extract_trainings_data(extracted, sp.train), sp.test)
    /\ ai' = 1
    /\ ci' = 0
    /\ pc' = "aggregator"
    /\ UNCHANGED << driver, opt_given, remover, best_score, scores, final_classifier,
                    final_aggregator, final_remover, disk, childVars, saveVars, callVars >>

\* A plausible slip: the feature extraction sits inside the aggregator loop.
SupFitAggregatorReextract ==
    /\ driver = "supervised"
    /\ pc = "aggregator"
    /\ ai <= Len(aggregator_list)
    /\ extracted' = extract_trainings_data(extract_trainings_data(extracted, x_train), x_test)
    /\ agg_state' = [agg_state EXCEPT ![ai] = 1]
    /\ IF Len(classifier_list) = 0
       THEN ai' = ai + 1 /\ ci' = 0 /\ pc' = "aggregator"
       ELSE ai' = ai /\ ci' = 1 /\ pc' = "classifier"
    /\ UNCHANGED << driver, opt, opt_given, aggregator_list, classifier_list, cls_state,
                    remover, best_f1_score, best_score, best_candidate, scores,
                    final_classifier, final_aggregator, final_remover, disk,
                    x_train, x_test, childVars, saveVars, callVars >>

\* for aggregator in self.aggregator_list: fit_transform on x_train, transform
\* on x_test.
SupFitAggregator ==
    /\ driver = "supervised"
    /\ pc = "aggregator"
    /\ ai <= Len(aggregator_list)
    /\ agg_state' = [agg_state EXCEPT ![ai] = 1]
    /\ IF Len(classifier_list) = 0
       THEN ai' = ai + 1 /\ ci' = 0 /\ pc' = "aggregator"
       ELSE ai' = ai /\ ci' = 1 /\ pc' = "classifier"
    /\ UNCHANGED << driver, opt, opt_given, aggregator_list, classifier_list, cls_state,
                    remover, best_f1_score, best_score, best_candidate, scores,
                    final_classifier, final_aggregator, final_remover, disk,
                    x_train, x_test, extracted, childVars, saveVars, callVars >>

\* for cls in self.classifier_list: fit, evaluate, and on a score that is at
\* least the best one record the candidate and save the pipeline.
SupEvaluate ==
    /\ driver = "supervised"
    /\ pc = "classifier"
    /\ \E f_1_score \in Scores :
          /\ cls_state' = [cls_state EXCEPT ![ci] = ai]
          /\ scores' = Append(scores, [a |-> ai, c |-> ci, s |-> f_1_score])
          /\ IF IsBetterF1(f_1_score, best_f1_score)
             THEN /\ best_f1_score' = f_1_score
                  /\ best_candidate' = [a |-> ai, c |-> ci]
                  /\ final_classifier' = [aggregator |-> ai, classifier |-> ci]
                  /\ disk' = << ImageClassifierSave(
                                  CurrentOpt(opt, aggregator_list[ai], classifier_list[ci]),
                                  ai, ci, agg_state, cls_state') >>
             ELSE UNCHANGED << best_f1_score, best_candidate, final_classifier, disk >>
    /\ IF ci < Len(classifier_list)
       THEN ci' = ci + 1 /\ ai' = ai /\ pc' = "classifier"
       ELSE ci' = 0 /\ ai' = ai + 1 /\ pc' = "aggregator"
    /\ UNCHANGED << driver, opt, opt_given, aggregator_list, classifier_list, agg_state,
                    remover, best_score, final_aggregator, final_remover,
                    x_train, x_test, extracted, childVars, saveVars, callVars >>

\* After the loops: the report and the write-back of the best candidate's
\* options into self.opt; best_candidate[0] raises when best_candidate is None.
SupFitEnd ==
    /\ driver = "supervised"
    /\ pc = "aggregator"
    /\ ai > Len(aggregator_list)
    /\ IF best_candidate = NoCandidate
       THEN pc' = "error" /\ opt' = opt
       ELSE /\ pc' = "done"
            /\ opt' = WriteBack(WriteBack(opt, aggregator_list[best_candidate.a]),
                                classifier_list[best_candidate.c])
    /\ UNCHANGED << driver, opt_given, fitVars, childVars, saveVars, callVars >>

\* ------------------------------------------------------------ OutlierDetectorAggregatorSearch.fit
\* A plausible slip: the tie rule of the supervised driver.
IsBetterAurocOrEqual(score, best) == score >= best

\* if score > best_score
IsBetterAuroc(score, best) == score > best

\* current_opt of OutlierDetectorAggregatorSearch.fit.
AggCurrentOpt(o, agg_opt) ==
    [k \in DOMAIN o \cup DOMAIN agg_opt |->
        IF k \in DOMAIN agg_opt THEN Scalar(agg_opt[k]) ELSE o[k]]

\* OutlierDetectorAggregatorSearch.save: opt, class mapping, the state of
\* self.final_aggregator and the state of self.final_remover.
AggSearchSave(current_opt, a, aggs, rem) ==
    [opt |-> current_opt, class_mapping |-> ClassMapping,
     aggregator |-> [idx |-> a, state |-> aggs[a]],
     model |-> [idx |-> 1, fit_on |-> rem]]

\* self.opt[k] = best_candidate.opt[k] for every key of best_candidate.opt.
AggWriteBack(o, cand_opt) ==
    [k \in DOMAIN o \cup DOMAIN cand_opt |->
        IF k \in DOMAIN cand_opt THEN Scalar(cand_opt[k]) ELSE o[k]]

\* fit up to the aggregator loop: new(), the locals, the two data sets and the
\* two feature extractions.
AggFitBegin ==
    /\ driver = "outlier_agg"
    /\ pc = "start"
    /\ opt' = AggNewOpt(opt)
    /\ aggregator_list' = AggAggregatorList(opt')
    /\ agg_state' = [i \in 1..Len(aggregator_list') |-> 0]
    /\ remover' = 0
    /\ best_score' = 0
    /\ best_candidate' = NoCandidate
    /\ x_train' = Tags
    /\ x_test' = TestTags
    /\ extracted' = extract_trainings_data(extract_trainings_data(extracted, Tags), TestTags)
    /\ ai' = 1
    /\ pc' = "aggregator"
    /\ UNCHANGED << driver, opt_given, classifier_list, cls_state, ci, best_f1_score, scores,
                    final_classifier, final_aggregator, final_remover, disk,
                    childVars, saveVars, callVars >>

\* One pass of the aggregator loop: fit the aggregator and the remover, score,
\* and on a strictly greater score record the candidate and save.
AggFitStep ==
    /\ driver = "outlier_agg"
    /\ pc = "aggregator"
    /\ ai <= Len(aggregator_list)
    /\ \E score \in Scores :
          /\ agg_state' = [agg_state EXCEPT ![ai] = 1]
          /\ remover' = ai
          /\ scores' = Append(scores, [a |-> ai, c |-> 0, s |-> score])
          /\ IF IsBetterAuroc(score, best_score)
             THEN /\ best_score' = score
                  /\ best_candidate' = [a |-> ai, c |-> 0]
                  /\ final_aggregator' = ai
                  /\ final_remover' = 1
                  /\ disk' = << AggSearchSave(AggCurrentOpt(opt, aggregator_list[ai]),
                                              ai, agg_state', remover') >>
             ELSE UNCHANGED << best_score, best_candidate, final_aggregator, final_remover, disk >>
    /\ ai' = ai + 1
    /\ UNCHANGED << driver, pc, opt, opt_given, aggregator_list, classifier_list, cls_state, ci,
                    best_f1_score, final_classifier, x_train, x_test, extracted,
                    childVars, saveVars, callVars >>

\* After the loop: the report and the write-back; best_candidate.opt raises
\* when best_candidate is None.
AggFitEnd ==
    /\ driver = "outlier_agg"
    /\ pc = "aggregator"
    /\ ai > Len(aggregator_list)
    /\ IF best_candidate = NoCandidate
       THEN pc' = "error" /\ opt' = opt
       ELSE pc' = "done" /\ opt' = AggWriteBack(opt, aggregator_list[best_candidate.a])
    /\ UNCHANGED << driver, opt_given, fitVars, childVars, saveVars, callVars >>

\* ------------------------------------------------------------ specification of the fit runs
Init ==
    /\ driver \in {"supervised", "outlier_agg"}
    /\ opt \in IF driver = "supervised"
               THEN {c \in SupervisedConfigs :
                        ListProduct(aggregator_opt \o classifier_opt, c) <= MaxCandidates}
               ELSE {c \in OutlierAggConfigs : ListProduct(aggregator_opt, c) <= MaxCandidates}
    /\ opt_given = opt
    /\ pc = "start"
    /\ FitInit
    /\ ChildInit
    /\ SaveIdle
    /\ CallIdle

Next ==
    \/ SupFitBegin
    \/ SupFitAggregator
    \/ SupEvaluate
    \/ SupFitEnd
    \/ AggFitBegin
    \/ AggFitStep
    \/ AggFitEnd

Spec == Init /\ [][Next]_vars

\* ------------------------------------------------------------ claims on the fit runs
MaxOf(S) == CHOOSE m \in S : \A x \in S : x <= m
MinOf(S) == CHOOSE m \in S : \A x \in S : m <= x

\* The highest score among the evaluated candidates, and the positions in the
\* evaluation order of the last and of the first candidate that reached it.
ScoreMax == MaxOf({scores[i].s : i \in DOMAIN scores})
LastBest == MaxOf({i \in DOMAIN scores : scores[i].s = ScoreMax})
FirstBest == MinOf({i \in DOMAIN scores : scores[i].s = ScoreMax})

\* The tags a fit of the driver extracts features for.
FitTags == IF driver = "supervised" THEN Range(Tags) ELSE Range(Tags) \cup Range(TestTags)

\* C1: during OptimizingImageClassifier.fit no step lowers best_f1_score.
C1_BestScoreNonDecreasing ==
    [][driver = "supervised" => best_f1_score' >= best_f1_score]_vars

\* C1 witness: a candidate scored below the recorded best and the best stayed.
C1_Witness ==
    /\ driver = "supervised"
    /\ Len(scores) >= 2
    /\ scores[Len(scores)].s < best_f1_score

\* C2: after every candidate evaluation of the supervised search, and at its
\* end, the checkpoint in the model folder is the pipeline of the candidate
\* that holds the recorded best score: its resolved options, the feature
\* config, the class mapping, its fitted aggregator and the classifier as
\* fitted on that aggregator's output; nothing is saved before a first best.
C2_CheckpointIsBest ==
    (driver = "supervised" /\ pc \in {"aggregator", "classifier", "done"}) =>
        IF best_candidate = NoCandidate
        THEN disk = <<>> /\ scores = <<>>
        ELSE /\ Len(disk) = 1
             /\ \E i \in DOMAIN scores :
                    scores[i] = [a |-> best_candidate.a, c |-> best_candidate.c, s |-> best_f1_score]
             /\ \A i \in DOMAIN scores : scores[i].s <= best_f1_score
             /\ disk[1].aggregator = [idx |-> best_candidate.a, state |-> 1]
             /\ disk[1].model = [idx |-> best_candidate.c, fit_on |-> best_candidate.a]
             /\ disk[1].class_mapping = ClassMapping
             /\ \A k \in DOMAIN aggregator_list[best_candidate.a] :
                    disk[1].opt[k] = Scalar(aggregator_list[best_candidate.a][k])
             /\ \A k \in DOMAIN classifier_list[best_candidate.c] :
                    disk[1].opt[k] = Scalar(classifier_list[best_candidate.c][k])
             /\ \A k \in Range(feature_opt) : disk[1].opt[k] = opt[k]

\* C2 witness: the run ended, the second candidate of at least three is the
\* best one and it is the one on disk.
C2_Witness ==
    /\ driver = "supervised"
    /\ pc = "done"
    /\ Len(scores) >= 3
    /\ best_candidate = [a |-> scores[2].a, c |-> scores[2].c]
    /\ Len(disk) = 1
    /\ disk[1].aggregator.idx = best_candidate.a
    /\ disk[1].model.idx = best_candidate.c

\* C3: in the supervised search the recorded best candidate, and the one
\* checkpointed, is the candidate evaluated last among those that reached the
\* highest score, and best_f1_score is that score.
C3_TieGoesToLast ==
    (driver = "supervised" /\ scores # <<>>) =>
        /\ best_f1_score = ScoreMax
        /\ best_candidate = [a |-> scores[LastBest].a, c |-> scores[LastBest].c]
        /\ Len(disk) = 1
        /\ disk[1].aggregator.idx = scores[LastBest].a
        /\ disk[1].model.idx = scores[LastBest].c

\* C3 witness: two candidates tie for the highest score and the later one is
\* the recorded best at the end of the run.
C3_Witness ==
    /\ driver = "supervised"
    /\ pc = "done"
    /\ FirstBest < LastBest
    /\ best_candidate = [a |-> scores[LastBest].a, c |-> scores[LastBest].c]

\* C4: in OutlierDetectorAggregatorSearch.fit the recorded best, and the
\* checkpoint, belong to the candidate evaluated first among those that
\* reached the highest AUROC; an equal score never replaces it, and a score
\* of 0 (equal to the initial best_score) never becomes the best.
C4_TieStaysWithFirst ==
    (driver = "outlier_agg" /\ scores # <<>>) =>
        IF ScoreMax = 0
        THEN best_candidate = NoCandidate /\ disk = <<>> /\ best_score = 0
        ELSE /\ best_score = ScoreMax
             /\ best_candidate = [a |-> scores[FirstBest].a, c |-> 0]
             /\ final_aggregator = scores[FirstBest].a
             /\ Len(disk) = 1
             /\ disk[1].aggregator.idx = scores[FirstBest].a

\* C4 witness: two aggregators tie for the highest AUROC and the earlier one
\* is the recorded best at the end of the run.
C4_Witness ==
    /\ driver = "outlier_agg"
    /\ pc = "done"
    /\ ScoreMax > 0
    /\ FirstBest < LastBest
    /\ best_candidate.a = scores[FirstBest].a

\* C6: a fit extracts the features of every tag exactly once, before the
\* aggregator loop, and no later step of the fit extracts again or changes
\* the features the candidates consume.
C6_ExtractedOnce ==
    [][ /\ (pc = "start" /\ pc' # "start") =>
              /\ \A t \in AllTags : extracted'[t] = IF t \in FitTags THEN 1 ELSE 0
              /\ Range(x_train') \cup Range(x_test') = FitTags
        /\ (pc # "start") => UNCHANGED << x_train, x_test, extracted >> ]_vars

\* C6 witness: a fit with at least three candidates ended and every tag was
\* extracted once.
C6_Witness ==
    /\ pc = "done"
    /\ Len(scores) >= 3
    /\ x_test # <<>>
    /\ \A t \in FitTags : extracted[t] = 1

\* C10: when fit has returned, the caller's Configuration holds the keys and
\* values it was passed with.
C10_OptUnchanged == (pc = "done") => (opt = opt_given)

\* ------------------------------------------------------------ grid expansion: new()
\* Configurations of OutlierDetectorSearch: the feature options feature,
\* image_size and sampling_step are scalars or candidate lists.
OutlierConfigs ==
    { [feature |-> f, image_size |-> z, sampling_method |-> Scalar("dense"),
       sampling_step |-> st, sampling_window |-> Scalar(SamplingStepValues[2]),
       aggregator |-> a, complexity |-> c, method |-> Scalar("by_distance")] :
        f \in ChoicesOf(FeatureValues), z \in ChoicesOf(ImageSizeValues),
        st \in ChoicesOf(SamplingStepValues),
        a \in AggregatorChoices, c \in ChoicesOf(ComplexityValues) }

\* A plausible slip: the guard "if k not in opt" is lost, every option of
\* self.opt overwrites the grid point's value.
ChildOptOverwrite(combo, o) ==
    [k \in DOMAIN o \cup DOMAIN combo |-> IF k \in DOMAIN o THEN o[k] ELSE Scalar(combo[k])]

\* The opt of one child of OutlierDetectorSearch.new: the grid point, plus
\* every option of self.opt the grid point does not hold.
ChildOpt(combo, o) ==
    [k \in DOMAIN o \cup DOMAIN combo |-> IF k \in DOMAIN combo THEN Scalar(combo[k]) ELSE o[k]]

\* self.model_list of OutlierDetectorSearch.new, from the listified opt.
OutlierModelList(o) ==
    LET feature_opt_list == ParameterGrid(GridKeys(feature_opt, o), o)
    IN  [i \in 1..Len(feature_opt_list) |-> ChildOpt(feature_opt_list[i], o)]

\* OptimizingImageClassifier.new
SupNew ==
    /\ driver = "supervised"
    /\ pc = "start"
    /\ opt' = SupNewOpt(opt)
    /\ aggregator_list' = SupAggregatorList(opt')
    /\ classifier_list' = SupClassifierList(opt')
    /\ pc' = "new_done"
    /\ UNCHANGED << driver, opt_given, agg_state, cls_state, remover, ai, ci, best_f1_score,
                    best_score, best_candidate, scores, final_classifier, final_aggregator,
                    final_remover, disk, x_train, x_test, extracted, childVars, saveVars, callVars >>

\* OutlierDetectorAggregatorSearch.new
AggNew ==
    /\ driver = "outlier_agg"
    /\ pc = "start"
    /\ opt' = AggNewOpt(opt)
    /\ aggregator_list' = AggAggregatorList(opt')
    /\ remover' = 0
    /\ pc' = "new_done"
    /\ UNCHANGED << driver, opt_given, classifier_list, agg_state, cls_state, ai, ci,
                    best_f1_score, best_score, best_candidate, scores, final_classifier,
                    final_aggregator, final_remover, disk, x_train, x_test, extracted,
                    childVars, saveVars, callVars >>

\* OutlierDetectorSearch.new
OutlierSearchNew ==
    /\ driver = "outlier"
    /\ pc = "start"
    /\ opt' = Listify(opt, feature_opt)
    /\ model_list' = OutlierModelList(opt')
    /\ mi' = 1
    /\ pc' = IF Len(model_list') = 0 THEN "new_done" ELSE "children"
    /\ UNCHANGED << driver, opt_given, fitVars, searchVars, saveVars, callVars >>

\* new() of the child model_list[mi], as its fit calls it: the child's own
\* opt mapping is listified and its aggregators are built.
ChildNew ==
    /\ driver = "outlier"
    /\ pc = "children"
    /\ mi <= Len(model_list)
    /\ model_list' = [model_list EXCEPT ![mi] = AggNewOpt(@)]
    /\ aggregator_list' = AggAggregatorList(model_list'[mi])
    /\ remover' = 0
    /\ mi' = mi + 1
    /\ pc' = IF mi = Len(model_list) THEN "new_done" ELSE "children"
    /\ UNCHANGED << driver, opt, opt_given, classifier_list, agg_state, cls_state, ai, ci,
                    best_f1_score, best_score, best_candidate, scores, final_classifier,
                    final_aggregator, final_remover, disk, x_train, x_test, extracted,
                    searchVars, saveVars, callVars >>

InitNew ==
    /\ driver \in {"supervised", "outlier_agg", "outlier"}
    /\ opt \in CASE driver = "supervised" -> SupervisedConfigs
                 [] driver = "outlier_agg" -> OutlierAggConfigs
                 [] OTHER -> OutlierConfigs
    /\ opt_given = opt
    /\ pc = "start"
    /\ FitInit
    /\ ChildInit
    /\ SaveIdle
    /\ CallIdle

NextNew ==
    \/ SupNew
    \/ AggNew
    \/ OutlierSearchNew
    \/ ChildNew

SpecNew == InitNew /\ [][NextNew]_vars

\* ------------------------------------------------------------ claims on the grid expansion
\* Number of entries of the sequence s that satisfy Test.
CountIn(s, Test(_)) == Len(SelectSeq(s, Test))

\* The aggregator names of the Configuration as passed, and the number of
\* complexity and clf_type candidates (a scalar is one candidate).
GivenAggregators == opt_given["aggregator"].v
NComplexity == Len(opt_given["complexity"].v)
NClfType == Len(opt_given["clf_type"].v)

\* C7 as stated: the number of candidates is the product of the
\* candidate-list lengths, in each of the three drivers.
C7_GridIsProduct ==
    /\ (driver = "supervised" /\ pc = "new_done") =>
          Len(aggregator_list) * Len(classifier_list)
              = Len(GivenAggregators) * NComplexity * NClfType
    /\ (driver = "outlier_agg" /\ pc = "new_done") =>
          Len(aggregator_list) = Len(GivenAggregators) * NComplexity
    /\ (driver = "outlier" /\ pc # "start") =>
          Len(model_list) = ListProduct(feature_opt, opt_given)

\* C7 amended: OutlierDetectorSearch.new creates one child per combination of
\* the feature options, the outlier aggregator tier one aggregator per
\* (aggregator, complexity) combination, and the supervised search has
\* (L * |complexity| + G) * |clf_type| candidates, L and G being the numbers
\* of non-global and of global names in the aggregator list.
C7_GridSize ==
    /\ (driver = "supervised" /\ pc = "new_done") =>
          Len(aggregator_list) * Len(classifier_list)
              = ( CountIn(GivenAggregators, LAMBDA n : ~ContainsGlobal(n)) * NComplexity
                  + CountIn(GivenAggregators, ContainsGlobal) ) * NClfType
    /\ (driver = "outlier_agg" /\ pc = "new_done") =>
          Len(aggregator_list) = Len(GivenAggregators) * NComplexity
    /\ (driver = "outlier" /\ pc # "start") =>
          Len(model_list) = ListProduct(feature_opt, opt_given)

\* C7 witness: a supervised grid with a global and a learned aggregator, two
\* complexity values and two classifier types.
C7_Witness ==
    /\ driver = "supervised"
    /\ pc = "new_done"
    /\ CountIn(GivenAggregators, ContainsGlobal) = 1
    /\ CountIn(GivenAggregators, LAMBDA n : ~ContainsGlobal(n)) = 1
    /\ NComplexity = 2
    /\ NClfType = 2
    /\ Len(aggregator_list) * Len(classifier_list) = 6

\* C8: in the supervised driver and in the outlier aggregator tier, every
\* listed aggregator name that contains "global_" yields one Aggregator,
\* every other name one Aggregator per complexity value.
C8_GlobalSingleton ==
    (driver \in {"supervised", "outlier_agg"} /\ pc = "new_done") =>
        \A name \in Range(GivenAggregators) :
            CountIn(aggregator_list, LAMBDA g : g["aggregator"] = name)
                = CountIn(GivenAggregators, LAMBDA n : n = name)
                  * (IF ContainsGlobal(name) THEN 1 ELSE NComplexity)

\* The feature options of a child's opt.
FeaturePart(child) == [k \in Range(feature_opt) \cap DOMAIN child |-> child[k]]

\* Every child holds the options of the Configuration, one value of the
\* candidate list for each feature option, and no two children hold the same
\* combination; a child whose new() has not run holds every other option as
\* the Configuration was passed.
C9_Handed ==
    (driver = "outlier" /\ pc # "start") =>
        /\ Len(model_list) = ListProduct(feature_opt, opt_given)
        /\ \A i \in DOMAIN model_list :
              /\ DOMAIN model_list[i] = DOMAIN opt_given
              /\ \A k \in Range(feature_opt) \cap DOMAIN opt_given :
                    /\ ~model_list[i][k].list
                    /\ Len(model_list[i][k].v) = 1
                    /\ model_list[i][k].v[1] \in Range(opt_given[k].v)
              /\ i >= mi =>
                    \A k \in DOMAIN opt_given \ Range(feature_opt) :
                        model_list[i][k] = opt_given[k]
        /\ \A i, j \in DOMAIN model_list :
              i # j => FeaturePart(model_list[i]) # FeaturePart(model_list[j])

\* C9: the configs OutlierDetectorSearch.new hands to its children are the
\* combinations of the feature candidates, one child each, with every other
\* option as in the original Configuration, and the new() of one child
\* changes no option of any other child.
C9_ChildConfigs ==
    [][ /\ C9_Handed'
        /\ (pc = "children") =>
              \A j \in DOMAIN model_list : j # mi => model_list'[j] = model_list[j] ]_vars

\* C9 witness: four children or more, the first expanded its aggregator tier
\* from scalars, the others still hold the options as passed.
C9_Witness ==
    /\ driver = "outlier"
    /\ pc = "children"
    /\ Len(model_list) >= 4
    /\ mi = 2
    /\ ~opt_given["aggregator"].list
    /\ model_list[1]["aggregator"].list
    /\ \A j \in 2..Len(model_list) : model_list[j]["aggregator"] = opt_given["aggregator"]

\* ------------------------------------------------------------ checkpoint writers, statement by statement
\* A search saves again and again into one folder; save_ver names the
\* pipeline a save writes, dir[f] the save that wrote file f last.
Versions == 1..MaxVersions

\* check_n_make_dir(path, clean): with clean the folder is removed and made
\* again, without it an existing folder keeps its files.
check_n_make_dir(d, clean) == IF clean THEN [f \in DOMAIN d |-> 0] ELSE d

\* Classifier.save, the paths and check_n_make_dir(model_path, clean=True)
ClsSaveClear ==
    /\ save_kind = "classifier"
    /\ save_pc = "idle"
    /\ \E v \in Versions, m \in BOOLEAN : save_ver' = v /\ has_model' = m
    /\ dir' = check_n_make_dir(dir, TRUE)
    /\ save_pc' = "class_mapping"
    /\ UNCHANGED << driver, pc, opt, opt_given, fitVars, childVars, callVars, save_kind >>

\* Classifier.save: save_dict(self.class_mapping, path_to_class_mapping)
ClsSaveClassMapping ==
    /\ save_kind = "classifier"
    /\ save_pc = "class_mapping"
    /\ dir' = [dir EXCEPT !["class_mapping.json"] = save_ver]
    /\ save_pc' = "opt"
    /\ UNCHANGED << driver, pc, opt, opt_given, fitVars, childVars, callVars, save_kind, save_ver, has_model >>

\* Classifier.save: save_dict(self.opt, path_to_pipeline_opt)
ClsSaveOpt ==
    /\ save_kind = "classifier"
    /\ save_pc = "opt"
    /\ dir' = [dir EXCEPT !["pipeline_opt.json"] = save_ver]
    /\ save_pc' = "model"
    /\ UNCHANGED << driver, pc, opt, opt_given, fitVars, childVars, callVars, save_kind, save_ver, has_model >>

\* Classifier.save: if self.classifier is not None: joblib.dump(...)
ClsSaveModel ==
    /\ save_kind = "classifier"
    /\ save_pc = "model"
    /\ dir' = IF has_model THEN [dir EXCEPT !["classifier.pkl"] = save_ver] ELSE dir
    /\ save_pc' = "idle"
    /\ UNCHANGED << driver, pc, opt, opt_given, fitVars, childVars, callVars, save_kind, save_ver, has_model >>

\* OutlierDetectorAggregatorSearch.save: check_n_make_dir(path)
AggSaveMakeDir ==
    /\ save_kind = "outlier"
    /\ save_pc = "idle"
    /\ \E v \in Versions : save_ver' = v
    /\ has_model' = TRUE
    /\ dir' = check_n_make_dir(dir, FALSE)
    /\ save_pc' = "opt"
    /\ UNCHANGED << driver, pc, opt, opt_given, fitVars, childVars, callVars, save_kind >>

\* OutlierDetectorAggregatorSearch.save: save_dict(current_opt, path_to_opt)
AggSaveOpt ==
    /\ save_kind = "outlier"
    /\ save_pc = "opt"
    /\ dir' = [dir EXCEPT !["outlier_detector_opt.json"] = save_ver]
    /\ save_pc' = "class_mapping"
    /\ UNCHANGED << driver, pc, opt, opt_given, fitVars, childVars, callVars, save_kind, save_ver, has_model >>

\* OutlierDetectorAggregatorSearch.save: save_dict(self.class_mapping, ...)
AggSaveClassMapping ==
    /\ save_kind = "outlier"
    /\ save_pc = "class_mapping"
    /\ dir' = [dir EXCEPT !["class_mapping.json"] = save_ver]
    /\ save_pc' = "aggregator"
    /\ UNCHANGED << driver, pc, opt, opt_given, fitVars, childVars, callVars, save_kind, save_ver, has_model >>

\* OutlierDetectorAggregatorSearch.save: self.final_aggregator.save(path)
AggSaveAggregator ==
    /\ save_kind = "outlier"
    /\ save_pc = "aggregator"
    /\ dir' = [dir EXCEPT !["aggregator.pkl"] = save_ver]
    /\ save_pc' = "model"
    /\ UNCHANGED << driver, pc, opt, opt_given, fitVars, childVars, callVars, save_kind, save_ver, has_model >>

\* OutlierDetectorAggregatorSearch.save: self.final_remover.save(path)
AggSaveRemover ==
    /\ save_kind = "outlier"
    /\ save_pc = "model"
    /\ dir' = [dir EXCEPT !["outlier_model.pkl"] = save_ver]
    /\ save_pc' = "idle"
    /\ UNCHANGED << driver, pc, opt, opt_given, fitVars, childVars, callVars, save_kind, save_ver, has_model >>

InitSave ==
    /\ driver = "none"
    /\ opt = BaseFeatureOpt
    /\ opt_given = opt
    /\ pc = "start"
    /\ FitInit
    /\ ChildInit
    /\ dir = [f \in SaveFiles |-> 0]
    /\ save_kind \in {"classifier", "outlier"}
    /\ save_pc = "idle"
    /\ save_ver = 0
    /\ has_model = FALSE
    /\ CallIdle

NextSave ==
    \/ ClsSaveClear
    \/ ClsSaveClassMapping
    \/ ClsSaveOpt
    \/ ClsSaveModel
    \/ AggSaveMakeDir
    \/ AggSaveOpt
    \/ AggSaveClassMapping
    \/ AggSaveAggregator
    \/ AggSaveRemover

SpecSave == InitSave /\ [][NextSave]_vars

\* The files a complete checkpoint of the running kind of save holds.
CheckpointFiles ==
    IF save_kind = "classifier"
    THEN {"class_mapping.json", "pipeline_opt.json"}
         \cup (IF has_model THEN {"classifier.pkl"} ELSE {})
    ELSE {"outlier_detector_opt.json", "class_mapping.json", "aggregator.pkl", "outlier_model.pkl"}

\* C5: whenever the model folder is looked at, also between two statements
\* of a save, it is empty or it holds all the files of a checkpoint, all
\* written by one and the same save.
C5_AtomicCheckpoint ==
    LET present == {f \in SaveFiles : dir[f] # 0}
    IN  \/ present = {}
        \/ /\ present = CheckpointFiles
           /\ \A f, g \in present : dir[f] = dir[g]

\* ------------------------------------------------------------ OutlierDetectorSearch.fit
\* Configurations of the modelled runs of OutlierDetectorSearch.fit: feature
\* and sampling_step are scalars or candidate lists that expand to at most
\* MaxChildren children, complexity is a scalar or a candidate list.
SearchConfigs ==
    { c \in OutlierConfigs :
        /\ ~c["image_size"].list
        /\ ~c["aggregator"].list
        /\ ListProduct(feature_opt, c) <= MaxChildren }

\* A plausible slip: the copy reads the folder of the loop variable i, the
\* child that ran last, instead of the folder of best_candidate.
LastVersionDir(best, last) == last

\* "version_{}".format(best_candidate): the folder the copy reads.  The model
\* counts the children from 1, so child i of the model writes version_<i - 1>.
BestVersionDir(best, last) == best

\* if score > best_score, on the score a child's fit returned
IsBetterChild(score, best) == score > best

\* fit up to the loop over the children: new(), the locals and
\* check_n_make_dir(model_folder) on a model folder that holds no files yet.
SearchFitBegin ==
    /\ driver = "outlier"
    /\ pc = "start"
    /\ opt' = Listify(opt, feature_opt)
    /\ model_list' = OutlierModelList(opt')
    /\ search_best_score' = 0
    /\ search_best_candidate' = 0
    /\ version_dirs' = [i \in 1..Len(model_list') |-> <<>>]
    /\ root' = <<>>
    /\ child_scores' = <<>>
    /\ mi' = 1
    /\ pc' = IF Len(model_list') = 0 THEN "copy" ELSE "child_start"
    /\ UNCHANGED << driver, opt_given, fitVars, saveVars, callVars >>

\* model.fit of the child model_list[mi], up to its aggregator loop: the
\* child's new(), its locals and the two feature extractions.
ChildFitBegin ==
    /\ driver = "outlier"
    /\ pc = "child_start"
    /\ model_list' = [model_list EXCEPT ![mi] = AggNewOpt(@)]
    /\ aggregator_list' = AggAggregatorList(model_list'[mi])
    /\ agg_state' = [i \in 1..Len(aggregator_list') |-> 0]
    /\ remover' = 0
    /\ best_score' = 0
    /\ best_candidate' = NoCandidate
    /\ final_aggregator' = 0
    /\ final_remover' = 0
    /\ x_train' = Tags
    /\ x_test' = TestTags
    /\ extracted' = extract_trainings_data(extract_trainings_data(extracted, Tags), TestTags)
    /\ ai' = 1
    /\ pc' = "child_loop"
    /\ UNCHANGED << driver, opt, opt_given, classifier_list, cls_state, ci, best_f1_score,
                    scores, final_classifier, disk, mi, searchVars, saveVars, callVars >>

\* One pass of the child's aggregator loop; its save writes into version_<i>.
ChildFitStep ==
    /\ driver = "outlier"
    /\ pc = "child_loop"
    /\ ai <= Len(aggregator_list)
    /\ \E score \in Scores :
          /\ agg_state' = [agg_state EXCEPT ![ai] = 1]
          /\ remover' = ai
          /\ IF IsBetterAuroc(score, best_score)
             THEN /\ best_score' = score
                  /\ best_candidate' = [a |-> ai, c |-> 0]
                  /\ final_aggregator' = ai
                  /\ final_remover' = 1
                  /\ version_dirs' =
                        [version_dirs EXCEPT ![mi] =
                            << AggSearchSave(AggCurrentOpt(model_list[mi], aggregator_list[ai]),
                                             ai, agg_state', remover') >>]
             ELSE UNCHANGED << best_score, best_candidate, final_aggregator, final_remover,
                               version_dirs >>
    /\ ai' = ai + 1
    /\ UNCHANGED << driver, pc, opt, opt_given, aggregator_list, classifier_list, cls_state, ci,
                    best_f1_score, scores, final_classifier, disk, x_train, x_test, extracted,
                    model_list, mi, root, child_scores, search_best_score,
                    search_best_candidate, saveVars, callVars >>

\* The end of the child's fit and the comparison in the loop of
\* OutlierDetectorSearch.fit: the child writes its best aggregator's options
\* back and returns best_score, or raises on best_candidate.opt when its
\* best_candidate is None; the exception leaves OutlierDetectorSearch.fit.
ChildFitEnd ==
    /\ driver = "outlier"
    /\ pc = "child_loop"
    /\ ai > Len(aggregator_list)
    /\ IF best_candidate = NoCandidate
       THEN /\ pc' = "error"
            /\ UNCHANGED << model_list, mi, child_scores, search_best_score,
                            search_best_candidate >>
       ELSE /\ model_list' = [model_list EXCEPT
                                 ![mi] = AggWriteBack(@, aggregator_list[best_candidate.a])]
            /\ child_scores' = Append(child_scores, best_score)
            /\ IF IsBetterChild(best_score, search_best_score)
               THEN search_best_candidate' = mi /\ search_best_score' = best_score
               ELSE UNCHANGED << search_best_candidate, search_best_score >>
            /\ mi' = mi + 1
            /\ pc' = IF mi < Len(model_list) THEN "child_start" ELSE "copy"
    /\ UNCHANGED << driver, opt, opt_given, fitVars, version_dirs, root, saveVars, callVars >>

\* After the loop: the report and the copy of every file of
\* version_<best_candidate> to the model folder; os.listdir raises on the
\* folder "version_None" when best_candidate is None.
SearchFitEnd ==
    /\ driver = "outlier"
    /\ pc = "copy"
    /\ IF search_best_candidate = 0
       THEN pc' = "error" /\ root' = root
       ELSE /\ root' = version_dirs[BestVersionDir(search_best_candidate, Len(model_list))]
            /\ pc' = "done"
    /\ UNCHANGED << driver, opt, opt_given, fitVars, model_list, mi, version_dirs,
                    child_scores, search_best_score, search_best_candidate, saveVars, callVars >>

InitSearch ==
    /\ driver = "outlier"
    /\ opt \in SearchConfigs
    /\ opt_given = opt
    /\ pc = "start"
    /\ FitInit
    /\ ChildInit
    /\ SaveIdle
    /\ CallIdle

NextSearch ==
    \/ SearchFitBegin
    \/ ChildFitBegin
    \/ ChildFitStep
    \/ ChildFitEnd
    \/ SearchFitEnd

SpecSearch == InitSearch /\ [][NextSearch]_vars

\* ------------------------------------------------------------ claims on OutlierDetectorSearch.fit
\* The highest score a child returned.
ChildScoreMax == MaxOf(Range(child_scores))

\* C11: when every child of OutlierDetectorSearch.fit has returned and the
\* fit has ended, the model-folder root holds the files of version_<i> of a
\* child i whose returned score is the highest of all children: the
\* checkpoint that child saved last, with that child's feature values.
C11_BestVersionCopied ==
    (driver = "outlier" /\ pc = "done") =>
        /\ Len(child_scores) = Len(model_list)
        /\ \E i \in DOMAIN model_list :
              /\ child_scores[i] = ChildScoreMax
              /\ Len(version_dirs[i]) = 1
              /\ root = version_dirs[i]
              /\ \A k \in Range(feature_opt) : root[1].opt[k] = model_list[i][k]

\* C11 witness: two children or more returned, a child other than the last
\* one holds the highest score alone, and its folder is the one at the root.
C11_Witness ==
    /\ driver = "outlier"
    /\ pc = "done"
    /\ Len(model_list) >= 2
    /\ child_scores[1] = ChildScoreMax
    /\ \A i \in 2..Len(child_scores) : child_scores[i] < ChildScoreMax
    /\ root = version_dirs[1]
    /\ root # version_dirs[Len(model_list)]

\* ------------------------------------------------------------ calls of split_tags
\* The tag list of n tags; a tag is named by its position in the data set.
TagList(n) == [i \in 1..n |-> i]

\* The ratios of the modelled calls, in hundredths: the default 0.2, its
\* complement and the two ends of [0, 1].
SplitRatios == {0, RatioPct, 100 - RatioPct, 100}

\* The arguments of the modelled calls: any list length up to MaxSplitTags in
\* fixed mode and with an unknown mode, a short list in random mode.
SplitArgs ==
    { [list_of_tags |-> TagList(n), ratio |-> r, mode |-> m] :
        n \in 0..MaxSplitTags, r \in SplitRatios, m \in {"fixed", "other"} }
    \cup { [list_of_tags |-> TagList(n), ratio |-> RatioPct, mode |-> "random"] : n \in 0..NTags }

\* split_tags(list_of_tags, ratio, mode), the first call.
SplitTagsCall ==
    /\ fn_pc = "call"
    /\ IF fn_args.mode \in {"random", "fixed"}
       THEN /\ \E r \in split_tags(fn_args.list_of_tags, fn_args.ratio, fn_args.mode) :
                  fn_ret' = <<r>>
            /\ fn_pc' = "returned"
       ELSE fn_pc' = "raised" /\ fn_ret' = fn_ret
    /\ UNCHANGED << driver, pc, opt, opt_given, fitVars, childVars, saveVars, fn_args, fe >>

\* split_tags on the same arguments, a second call.
SplitTagsCallAgain ==
    /\ fn_pc = "returned"
    /\ \E r \in split_tags(fn_args.list_of_tags, fn_args.ratio, fn_args.mode) :
          fn_ret' = Append(fn_ret, r)
    /\ fn_pc' = "returned_twice"
    /\ UNCHANGED << driver, pc, opt, opt_given, fitVars, childVars, saveVars, fn_args, fe >>

InitSplit ==
    /\ driver = "none"
    /\ opt = BaseFeatureOpt
    /\ opt_given = opt
    /\ pc = "start"
    /\ FitInit
    /\ ChildInit
    /\ SaveIdle
    /\ fn_pc = "call"
    /\ fn_args \in SplitArgs
    /\ fn_ret = <<>>
    /\ fe = <<>>

NextSplit ==
    \/ SplitTagsCall
    \/ SplitTagsCallAgain

SpecSplit == InitSplit /\ [][NextSplit]_vars

\* C12: split_tags in fixed mode returns the first ratio * 100 tags of the
\* list (all of them when the list is shorter), in list order, as the test
\* set and the remaining tags, in list order, as the train set, so every tag
\* is in exactly one of the two; a second call on the same list returns the
\* same pair; 100 tags with ratio 0.2 give positions 0-19 and 20-99.
C12_SplitFixed ==
    (fn_pc \in {"returned", "returned_twice"} /\ fn_args.mode = "fixed") =>
        LET tags == fn_args.list_of_tags
            cut == Min(fn_args.ratio, Len(tags))
        IN  /\ fn_ret[1].test = SubSeq(tags, 1, cut)
            /\ fn_ret[1].train = SubSeq(tags, cut + 1, Len(tags))
            /\ fn_ret[1].test \o fn_ret[1].train = tags
            /\ Range(fn_ret[1].test) \cap Range(fn_ret[1].train) = {}
            /\ fn_pc = "returned_twice" => fn_ret[2] = fn_ret[1]
            /\ (Len(tags) = 100 /\ fn_args.ratio = 20) =>
                  /\ fn_ret[1].test = [i \in 1..20 |-> tags[i]]
                  /\ fn_ret[1].train = [i \in 1..80 |-> tags[20 + i]]

\* C12 witness: two calls on 100 tags with ratio 0.2 returned 20 test tags
\* and 80 train tags, the tag at position 20 being the first train tag.
C12_Witness ==
    /\ fn_pc = "returned_twice"
    /\ fn_args.mode = "fixed"
    /\ Len(fn_args.list_of_tags) = 100
    /\ fn_args.ratio = RatioPct
    /\ Len(fn_ret[2].test) = 20
    /\ Len(fn_ret[2].train) = 80
    /\ fn_ret[2].train[1] = fn_args.list_of_tags[21]

\* ------------------------------------------------------------ calls of Classifier.predict
\* The class probabilities a model estimates for one sample, in units of
\* 1 / MaxProb: one entry per class of the class mapping, summing to 1.
ProbVectors ==
    { p \in [1..Cardinality(DOMAIN ClassMapping) -> 0..MaxProb] :
        p[1] + p[2] = MaxProb }

\* np.argmax(prob): the index, from 0, of the first largest entry.
ArgMax(prob) ==
    MinOf({i \in DOMAIN prob : \A j \in DOMAIN prob : prob[j] <= prob[i]}) - 1

\* np.max(prob)
MaxProbOf(prob) == MaxOf(Range(prob))

\* The arguments and the underlying model of a call: whether the model
\* exposes predict_proba, whether a call of it fails inside, the
\* probabilities it estimates otherwise and the label its predict returns.
PredictArgs ==
    [ get_confidence : BOOLEAN, has_predict_proba : BOOLEAN, proba_raises : BOOLEAN,
      prob : ProbVectors, label : 0..(Cardinality(DOMAIN ClassMapping) - 1) ]

\* Classifier.predict(x, get_confidence); fn_pc names the return statement
\* that ran.  The bare except catches the AttributeError of a model without
\* predict_proba and every exception raised inside predict_proba alike.
ClassifierPredict ==
    /\ fn_pc = "call"
    /\ IF fn_args.get_confidence
       THEN IF fn_args.has_predict_proba /\ ~fn_args.proba_raises
            THEN /\ fn_ret' = << ArgMax(fn_args.prob), MaxProbOf(fn_args.prob) >>
                 /\ fn_pc' = "returned_proba"
            ELSE /\ fn_ret' = << fn_args.label, MaxProb >>
                 /\ fn_pc' = "returned_except"
       ELSE /\ fn_ret' = << fn_args.label >>
            /\ fn_pc' = "returned"
    /\ UNCHANGED << driver, pc, opt, opt_given, fitVars, childVars, saveVars, fn_args, fe >>

InitPredict ==
    /\ driver = "none"
    /\ opt = BaseFeatureOpt
    /\ opt_given = opt
    /\ pc = "start"
    /\ FitInit
    /\ ChildInit
    /\ SaveIdle
    /\ fn_pc = "call"
    /\ fn_args \in PredictArgs
    /\ fn_ret = <<>>
    /\ fe = <<>>

NextPredict == ClassifierPredict

SpecPredict == InitPredict /\ [][NextPredict]_vars

\* C13: predict with get_confidence reports the fallback confidence 1.0 only
\* for a model without predict_proba; a failure inside predict_proba of a
\* model that has it leaves predict as a failure; and a successful estimate
\* returns the class of the highest probability with that probability.
C13_FallbackOnlyWithoutProba ==
    /\ (fn_pc = "returned_except") => ~fn_args.has_predict_proba
    /\ (fn_pc # "call" /\ fn_args.get_confidence
            /\ fn_args.has_predict_proba /\ fn_args.proba_raises) => fn_pc = "raised"
    /\ (fn_pc = "returned_proba") =>
          /\ fn_args.prob[fn_ret[1] + 1] = MaxProbOf(fn_args.prob)
          /\ fn_ret[2] = MaxProbOf(fn_args.prob)

\* ------------------------------------------------------------ FeatureExtractor
\* Descriptor names, "<colour space>-<descriptor>", and key-point methods.
DescriptorNames == {"gray-sift", "hsv-sift", "gray-kaze"}
SamplingMethods == {"dense", "sift", "kaze", "akaze"}

\* The names above that contain the substring "kaze", and "sift".
ContainsKaze(name) == name \in {"gray-kaze"}
ContainsSift(name) == name \in {"gray-sift", "hsv-sift"}

\* Python's `"kaze" in features_to_use` and `"sift" in features_to_use`: a
\* substring test when features_to_use is a string, a test for an element
\* equal to the word when it is a list.
KazeIn(features_to_use) ==
    IF features_to_use.list
    THEN \E i \in DOMAIN features_to_use.v : features_to_use.v[i] = "kaze"
    ELSE ContainsKaze(features_to_use.v[1])

SiftIn(features_to_use) ==
    IF features_to_use.list
    THEN \E i \in DOMAIN features_to_use.v : features_to_use.v[i] = "sift"
    ELSE ContainsSift(features_to_use.v[1])

\* validate_feature_extraction_settings(sampling_method, features_to_use)
validate_feature_extraction_settings(sampling_method, features_to_use) ==
    IF sampling_method \notin {"kaze", "akaze"}
          /\ KazeIn(features_to_use)
    THEN [sampling_method |-> "kaze", features_to_use |-> features_to_use]
    ELSE IF sampling_method = "sift" /\ ~SiftIn(features_to_use)
    THEN [sampling_method |-> "kaze", features_to_use |-> features_to_use]
    ELSE [sampling_method |-> sampling_method, features_to_use |-> features_to_use]

\* A dimension handed to resize: None, a fraction n / FracDen below 1, or a
\* number n >= 1 of pixels.
FracDen == 4
DimNone == [kind |-> "none", n |-> 0]
Dims == {DimNone, [kind |-> "frac", n |-> 1], [kind |-> "frac", n |-> 3],
         [kind |-> "abs", n |-> 64], [kind |-> "abs", n |-> 128]}

\* The image a tag loads: image.shape[:2] is (480, 640).
Image == [height |-> 480, width |-> 640]

\* int(o * d) for a dimension d that is not None.
ScaleBy(o, d) == IF d.kind = "frac" THEN (o * d.n) \div FracDen ELSE o * d.n

\* The outcome of resize: a TypeError, or the size of the image returned.
TypeError == [raised |-> TRUE, height |-> 0, width |-> 0]
Sized(h, w) == [raised |-> FALSE, height |-> h, width |-> w]

\* FeatureExtractor.resize(image, height, width).  `height < 1 or width < 1`
\* compares height first and width only when height >= 1, and comparing None
\* with a number raises a TypeError, as does multiplying by None.
resize(image, height, width) ==
    IF height.kind = "none" /\ width.kind = "none" THEN Sized(image.height, image.width)
    ELSE IF height.kind = "none" THEN TypeError
    ELSE IF height.kind = "frac"
    THEN IF width.kind = "none" THEN TypeError
         ELSE Sized(ScaleBy(image.height, height), ScaleBy(image.width, width))
    ELSE IF width.kind = "none" THEN TypeError
    ELSE IF width.kind = "frac"
    THEN Sized(ScaleBy(image.height, height), ScaleBy(image.width, width))
    ELSE Sized(height.n, width.n)

\* `type(features_to_use) is not list()` compares a type with a fresh empty
\* list object and is true for every argument: the argument, a name or a
\* list of names, always becomes the one element of a new list.
WrapFeatures(features_to_use) == << features_to_use >>

\* extract_x after the resize: one DescriptorSet(feature).compute per element
\* of self.features_to_use; dc[k] says whether computation k returned
\* features.  None (none |-> TRUE) when no computation did, else the outputs
\* concatenated column-wise, `parts` of them.
extract_x(size, dc) ==
    LET parts == Cardinality({k \in DOMAIN dc : dc[k]})
    IN  [none |-> parts = 0, height |-> size.height, width |-> size.width, parts |-> parts]

\* assert x is not None, on the list x that extract_trainings_data built:
\* a list object is never None, whatever its entries are.
IsNotNone(x) == TRUE

\* The arguments of FeatureExtractor(...) and the number of tags of the
\* batch handed to extract_trainings_data.
ExtractArgs ==
    [ sampling_method : SamplingMethods,
      features_to_use : {Scalar(n) : n \in DescriptorNames}
                        \cup {ListOf(q) : q \in Seqs(DescriptorNames, MaxList)},
      image_height : Dims, image_width : Dims,
      n_tags : 0..NTags ]

\* FeatureExtractor.__init__
FeatureExtractorInit ==
    /\ fn_pc = "call"
    /\ LET v == validate_feature_extraction_settings(fn_args.sampling_method,
                                                     fn_args.features_to_use)
       IN  fe' = [ features_to_use |-> WrapFeatures(v.features_to_use),
                   sampling_method |-> v.sampling_method,
                   img_height |-> fn_args.image_height,
                   img_width |-> fn_args.image_width ]
    /\ fn_pc' = "constructed"
    /\ UNCHANGED << driver, pc, opt, opt_given, fitVars, childVars, saveVars, fn_args, fn_ret >>

\* extract_trainings_data: x, y = [], []
ExtractTrainingsDataBegin ==
    /\ fn_pc = "constructed"
    /\ fn_ret' = [x |-> <<>>, y |-> <<>>, computes |-> <<>>]
    /\ fn_pc' = "loop"
    /\ UNCHANGED << driver, pc, opt, opt_given, fitVars, childVars, saveVars, fn_args, fe >>

\* extract_trainings_data, one pass of the loop over the tags: load the
\* image, extract_x (resize, then the descriptor computations), load the
\* label, append both.  computes records the number of computations made.
ExtractTag ==
    /\ fn_pc = "loop"
    /\ Len(fn_ret.x) < fn_args.n_tags
    /\ LET size == resize(Image, fe.img_height, fe.img_width)
       IN  IF size.raised
           THEN fn_pc' = "raised" /\ fn_ret' = fn_ret
           ELSE /\ \E dc \in [1..Len(fe.features_to_use) -> BOOLEAN] :
                      fn_ret' = [ x |-> Append(fn_ret.x, extract_x(size, dc)),
                                  y |-> Append(fn_ret.y, Len(fn_ret.y) + 1),
                                  computes |-> Append(fn_ret.computes, Len(dc)) ]
                /\ fn_pc' = "loop"
    /\ UNCHANGED << driver, pc, opt, opt_given, fitVars, childVars, saveVars, fn_args, fe >>

\* extract_trainings_data after the loop: the assertion and the return.
ExtractTrainingsDataEnd ==
    /\ fn_pc = "loop"
    /\ Len(fn_ret.x) = fn_args.n_tags
    /\ fn_pc' = IF IsNotNone(fn_ret.x) THEN "returned" ELSE "assertion_failed"
    /\ UNCHANGED << driver, pc, opt, opt_given, fitVars, childVars, saveVars, fn_args, fn_ret, fe >>

InitExtract ==
    /\ driver = "none"
    /\ opt = BaseFeatureOpt
    /\ opt_given = opt
    /\ pc = "start"
    /\ FitInit
    /\ ChildInit
    /\ SaveIdle
    /\ fn_pc = "call"
    /\ fn_args \in ExtractArgs
    /\ fn_ret = <<>>
    /\ fe = <<>>

NextExtract ==
    \/ FeatureExtractorInit
    \/ ExtractTrainingsDataBegin
    \/ ExtractTag
    \/ ExtractTrainingsDataEnd

SpecExtract == InitExtract /\ [][NextExtract]_vars

\* ------------------------------------------------------------ claims on the FeatureExtractor
\* The descriptor names of a descriptor set, given as a name or as a list.
NamesOf(features_to_use) == Range(features_to_use.v)

\* A pair is compatible unless it holds a KAZE descriptor without kaze or
\* akaze key points, or SIFT key points without a SIFT descriptor.
Compatible(sampling_method, features_to_use) ==
    /\ ~ ( /\ sampling_method \notin {"kaze", "akaze"}
           /\ \E n \in NamesOf(features_to_use) : ContainsKaze(n) )
    /\ ~ ( /\ sampling_method = "sift"
           /\ ~ \E n \in NamesOf(features_to_use) : ContainsSift(n) )

\* C14: the pair validate_feature_extraction_settings returns, and the
\* FeatureExtractor keeps, holds the descriptor set as given and a compatible
\* sampling method: the given one when it was compatible, a replacement
\* otherwise; validating the returned pair again returns it unchanged.
C14_ValidatedCompatible ==
    (fn_pc # "call") =>
        LET v == validate_feature_extraction_settings(fn_args.sampling_method,
                                                      fn_args.features_to_use)
        IN  /\ fe.sampling_method = v.sampling_method
            /\ v.features_to_use = fn_args.features_to_use
            /\ Compatible(v.sampling_method, v.features_to_use)
            /\ Compatible(fn_args.sampling_method, fn_args.features_to_use) =>
                  v.sampling_method = fn_args.sampling_method
            /\ validate_feature_extraction_settings(v.sampling_method, v.features_to_use) = v

\* C15: extract_trainings_data ends with one feature entry and one label per
\* tag, in tag order, the feature entry being None exactly when no descriptor
\* computation returned features; the assertion fails when the batch has
\* tags and every feature entry is None, and passes when one is not None.
C15_NoneAndAssertion ==
    (fn_pc \in {"returned", "assertion_failed"}) =>
        /\ Len(fn_ret.x) = fn_args.n_tags
        /\ Len(fn_ret.y) = fn_args.n_tags
        /\ \A i \in DOMAIN fn_ret.x :
              /\ fn_ret.y[i] = i
              /\ fn_ret.x[i].none <=> (fn_ret.x[i].parts = 0)
        /\ (fn_args.n_tags > 0 /\ \A i \in DOMAIN fn_ret.x : fn_ret.x[i].none) =>
              fn_pc = "assertion_failed"
        /\ (\E i \in DOMAIN fn_ret.x : ~fn_ret.x[i].none) => fn_pc = "returned"

\* C16: a FeatureExtractor keeps the flat list of the descriptor names it
\* was given, one entry per name, and extract_x makes one descriptor
\* computation per name for every tag.
C16_OnePerName ==
    (fn_pc # "call") =>
        /\ Len(fe.features_to_use) = Len(fn_args.features_to_use.v)
        /\ \A k \in DOMAIN fe.features_to_use :
              fe.features_to_use[k] = Scalar(fn_args.features_to_use.v[k])
        /\ (fn_pc # "constructed") =>
              \A i \in DOMAIN fn_ret.computes :
                  fn_ret.computes[i] = Len(fn_args.features_to_use.v)

\* C17: resize raises in no mode, and the image it returns has the original
\* size when both dimensions are unset, height x width when both are pixel
\* counts, the original size times the fractions when both are fractions,
\* and the aspect ratio of the original when exactly one is unset.
C17_ResizeModes ==
    /\ fn_pc # "raised"
    /\ (fn_pc \in {"loop", "returned"}) =>
          \A i \in DOMAIN fn_ret.x :
              LET h == fe.img_height
                  w == fe.img_width
                  r == fn_ret.x[i]
              IN  /\ (h.kind = "none" /\ w.kind = "none") =>
                        r.height = Image.height /\ r.width = Image.width
                  /\ (h.kind = "abs" /\ w.kind = "abs") =>
                        r.height = h.n /\ r.width = w.n
                  /\ (h.kind = "frac" /\ w.kind = "frac") =>
                        /\ r.height = (Image.height * h.n) \div FracDen
                        /\ r.width = (Image.width * w.n) \div FracDen
                  /\ ((h.kind = "none") # (w.kind = "none")) =>
                        r.height * Image.width = r.width * Image.height

\* ------------------------------------------------------------ claims on the end of the fit runs
\* C18: when a fit has returned, the objects it keeps are in the state the
\* best candidate left them in, which is the state on disk: the supervised
\* search references the best candidate's aggregator, fitted, and its
\* classifier as fitted on that aggregator's output; the outlier aggregator
\* search references the best aggregator and the remover as fitted on that
\* aggregator's output.
C18_InMemoryIsCheckpoint ==
    (driver \in {"supervised", "outlier_agg"} /\ pc = "done") =>
        IF driver = "supervised"
        THEN /\ final_classifier = [aggregator |-> best_candidate.a,
                                    classifier |-> best_candidate.c]
             /\ agg_state[final_classifier.aggregator] = 1
             /\ cls_state[final_classifier.classifier] = final_classifier.aggregator
             /\ disk[1].model.fit_on = cls_state[final_classifier.classifier]
        ELSE /\ final_aggregator = best_candidate.a
             /\ agg_state[final_aggregator] = 1
             /\ final_remover = 1
             /\ remover = final_aggregator
             /\ disk[1].model.fit_on = remover

\* C19: a fit that evaluated at least one candidate comes to its final
\* report with a best candidate recorded and a checkpoint written, and ends
\* without raising, whatever the scores were.
C19_BestRecorded ==
    ( /\ driver \in {"supervised", "outlier_agg"}
      /\ scores # <<>>
      /\ \/ pc = "aggregator" /\ ai > Len(aggregator_list)
         \/ pc \in {"done", "error"} ) =>
        /\ best_candidate # NoCandidate
        /\ Len(disk) = 1
        /\ pc # "error"

====
